---------------------------- MODULE Spec2Model ----------------------------
(***************************************************************************)
(* Translation string lookup helpers                                       *)
(* (homeassistant/helpers/translation.py).                                  *)
(*                                                                         *)
(* Python values are modelled as follows.                                  *)
(*   str   a sequence of one-character strings, so that formatting,        *)
(*         concatenation and splitting on "." are real operations;         *)
(*   dict  a sequence of <<key, value>> pairs with distinct keys, in       *)
(*         insertion order (the order items() iterates in);                *)
(*   a value inside a JSON document is PyStr(s) or PyDict(d);              *)
(*   set   a TLA+ set; the order a Python set iterates in is not defined   *)
(*         by the language, so every iteration over a set picks one of     *)
(*         its orders.                                                     *)
(***************************************************************************)
EXTENDS Integers, Sequences, FiniteSets, TLC

VARIABLES
    components,   \* hass.config.components
    data,         \* hass.data, restricted to TRANSLATION_STRING_CACHE
    calls,        \* one record per call of the exposed API
    started,      \* number of calls started so far
    changes,      \* number of changes made to hass.config.components
    fileLoads,    \* history: files read without error per <<language, component>>
    cacheInserts, \* history: insertions into the cache per <<language, component>>
    arg,          \* pure-function harness: the input
    ret,          \* pure-function harness: the output
    hpc           \* pure-function harness: "idle", "ready" or "done"

vars == <<components, data, calls, started, changes, fileLoads, cacheInserts,
          arg, ret, hpc>>

---------------------------------------------------------------------------
(* Bounds of the model.                                                    *)

MaxCalls == 2
MaxChanges == 1
MaxNodes == 3

---------------------------------------------------------------------------
(* str                                                                     *)

Dot == "."

\* '.' in s
HasDot(s) == \E n \in DOMAIN s : s[n] = Dot

\* index of the first '.' of s (s has one)
FirstDot(s) == CHOOSE n \in DOMAIN s : s[n] = Dot /\ \A m \in 1..(n - 1) : s[m] # Dot

\* a split at the last '.' of s instead of the first
SplitAtLast(s) ==
    IF HasDot(s)
    THEN LET n == CHOOSE i \in DOMAIN s :
                      s[i] = Dot /\ \A j \in (i + 1)..Len(s) : s[j] # Dot
         IN  <<SubSeq(s, 1, n - 1), SubSeq(s, n + 1, Len(s))>>
    ELSE <<s>>

\* s.split('.', 1)
Split1(s) ==
    IF HasDot(s)
    THEN <<SubSeq(s, 1, FirstDot(s) - 1), SubSeq(s, FirstDot(s) + 1, Len(s))>>
    ELSE <<s>>

---------------------------------------------------------------------------
(* dict                                                                    *)

PyStr(s) == [leaf |-> s]
PyDict(d) == [dict |-> d]
\* isinstance(value, dict)
IsDict(value) == "dict" \in DOMAIN value

Keys(d) == {d[n][1] : n \in DOMAIN d}
\* key in d
Has(d, key) == \E n \in DOMAIN d : d[n][1] = key
\* d[key]
Get(d, key) == d[CHOOSE n \in DOMAIN d : d[n][1] = key][2]
\* d[key] = value
Put(d, key, value) ==
    IF Has(d, key)
    THEN [n \in DOMAIN d |-> IF d[n][1] = key THEN <<key, value>> ELSE d[n]]
    ELSE Append(d, <<key, value>>)

\* d.update(e)
RECURSIVE Update(_, _)
Update(d, e) ==
    IF e = <<>> THEN d
    ELSE Update(Put(d, e[1][1], e[1][2]), Tail(e))

---------------------------------------------------------------------------
(* recursive_flatten, flatten                                              *)

\* a flatten that does not carry the prefix into nested mappings
RECURSIVE recursive_flatten_no_prefix(_, _)
recursive_flatten_no_prefix(prefix, d) ==
    IF d = <<>> THEN <<>>
    ELSE LET n      == Len(d)
             output == recursive_flatten_no_prefix(prefix, SubSeq(d, 1, n - 1))
             key    == d[n][1]
             value  == d[n][2]
         IN  IF IsDict(value)
             THEN Update(output, recursive_flatten_no_prefix(key \o <<Dot>>, value.dict))
             ELSE Put(output, prefix \o key, value)

RECURSIVE recursive_flatten(_, _)
recursive_flatten(prefix, d) ==
    IF d = <<>> THEN <<>>
    ELSE LET n      == Len(d)
             output == recursive_flatten(prefix, SubSeq(d, 1, n - 1))
             key    == d[n][1]
             value  == d[n][2]
         IN  IF IsDict(value)
             THEN Update(output, recursive_flatten(prefix \o key \o <<Dot>>, value.dict))
             ELSE Put(output, prefix \o key, value)

\* a flatten that returns its argument as it is
flatten_not(d) == d

flatten(d) == recursive_flatten(<<>>, d)

---------------------------------------------------------------------------
(* String values used by the code and by the deployment modelled here.     *)

TRANSLATION_STRING_CACHE == "translation_string_cache"

S_component == <<"c", "o", "m", "p", "o", "n", "e", "n", "t">>
S_translations == <<".", "t", "r", "a", "n", "s", "l", "a", "t", "i", "o", "n", "s">>
S_json == <<"j", "s", "o", "n">>
S_init_py == <<"_", "_", "i", "n", "i", "t", "_", "_", ".", "p", "y">>
S_components == <<"c", "o", "m", "p", "o", "n", "e", "n", "t", "s">>
S_light == <<"l", "i", "g", "h", "t">>
S_hue == <<"h", "u", "e">>
S_group == <<"g", "r", "o", "u", "p">>
S_zz == <<"z", "z">>
S_light_py == <<"l", "i", "g", "h", "t", ".", "p", "y">>
S_group_py == <<"g", "r", "o", "u", "p", ".", "p", "y">>
S_state == <<"s", "t", "a", "t", "e">>
S_on == <<"o", "n">>
S_off == <<"o", "f", "f">>
S_title == <<"t", "i", "t", "l", "e">>
S_demo == <<"d", "e", "m", "o">>
S_demo_py == <<"d", "e", "m", "o", ".", "p", "y">>
S_zz_py == <<"z", "z", ".", "p", "y">>

En == <<"e", "n">>
Nl == <<"n", "l">>
Languages == {En, Nl}

\* component and platform identifiers
Light == S_light
LightHue == S_light \o <<Dot>> \o S_hue
Group == S_group
Unknown == S_zz

---------------------------------------------------------------------------
(* External collaborators: the loader's registry, the files on disk, the   *)
(* list of config flows.                                                   *)

None == [none |-> TRUE]
IsNone(v) == "none" \in DOMAIN v

\* a module object: __file__ as the parts of its path, __name__, __package__
Module(file, name, package) == [file |-> file, name |-> name, package |-> package]

PackageName == S_components

\* homeassistant.loader.get_component(hass, name)
get_component(name) ==
    CASE name = S_light ->
           Module(<<S_components, S_light, S_init_py>>,
                  PackageName \o <<Dot>> \o S_light,
                  PackageName \o <<Dot>> \o S_light)
      [] name = S_group ->
           Module(<<S_components, S_group_py>>,
                  PackageName \o <<Dot>> \o S_group,
                  PackageName)
      [] OTHER -> None

\* homeassistant.loader.get_platform(hass, domain, platform): light.hue lives
\* in the platform's package (hue/light.py), light.demo in the domain's
\* package (light/demo.py), light.hue.zz in a package below it (light/hue/zz.py)
get_platform(domain, platform) ==
    CASE domain = S_light /\ platform = S_hue ->
           Module(<<S_components, S_hue, S_light_py>>,
                  PackageName \o <<Dot>> \o S_hue \o <<Dot>> \o S_light,
                  PackageName \o <<Dot>> \o S_hue)
      [] domain = S_light /\ platform = S_demo ->
           Module(<<S_components, S_light, S_demo_py>>,
                  PackageName \o <<Dot>> \o S_light \o <<Dot>> \o S_demo,
                  PackageName \o <<Dot>> \o S_light)
      [] domain = S_light /\ platform = S_hue \o <<Dot>> \o S_zz ->
           Module(<<S_components, S_light, S_hue, S_zz_py>>,
                  PackageName \o <<Dot>> \o S_light \o <<Dot>> \o S_hue
                      \o <<Dot>> \o S_zz,
                  PackageName \o <<Dot>> \o S_light \o <<Dot>> \o S_hue)
      [] OTHER -> None

\* config_entries.FLOWS
FLOWS == <<S_light>>

\* what load_json finds on disk: a parsed document, or an error (there is no
\* Dutch file for the platform light.hue, and the Dutch file of group holds a
\* JSON string)
Loaded(value) == [ok |-> TRUE, value |-> value]
LoadError == [ok |-> FALSE]

TranslationsDir(dir) == <<S_components>> \o dir \o <<S_translations>>

load_json(path) ==
    CASE path = TranslationsDir(<<S_light>>) \o <<En \o <<Dot>> \o S_json>> ->
           Loaded(PyDict(<< <<S_state, PyDict(<< <<S_on, PyStr("On")>>,
                                                 <<S_off, PyStr("Off")>> >>)>> >>))
      [] path = TranslationsDir(<<S_light>>) \o <<Nl \o <<Dot>> \o S_json>> ->
           Loaded(PyDict(<< <<S_state, PyDict(<< <<S_on, PyStr("Aan")>> >>)>>,
                            <<S_title, PyStr("Licht")>> >>))
      [] path = TranslationsDir(<<S_hue>>) \o <<S_light \o <<Dot>> \o En \o <<Dot>> \o S_json>> ->
           Loaded(PyDict(<< <<S_state, PyDict(<< <<S_on, PyStr("On (Hue)")>> >>)>> >>))
      [] path = TranslationsDir(<<>>) \o <<S_group \o <<Dot>> \o En \o <<Dot>> \o S_json>> ->
           Loaded(PyDict(<< <<S_title, PyStr("Group")>> >>))
      [] path = TranslationsDir(<<>>) \o <<S_group \o <<Dot>> \o Nl \o <<Dot>> \o S_json>> ->
           Loaded(PyStr("Groep"))
      [] OTHER -> LoadError

---------------------------------------------------------------------------
(* component_translation_file                                              *)

\* a parent that is the path itself
ParentIsSelf(path) == path

\* pathlib: path.parent, path.name, path / part
Parent(path) == SubSeq(path, 1, Len(path) - 1)
Name(path) == path[Len(path)]

Path(path) == [path |-> path]
Raised == [raised |-> TRUE]
IsRaised(v) == "raised" \in DOMAIN v

component_translation_file(component, language) ==
    LET is_platform == HasDot(component)
    IN  IF ~is_platform
        THEN LET module == get_component(component)
             IN  IF IsNone(module) THEN Raised
                 ELSE LET module_path == module.file
                          filename ==
                              IF module.name = module.package
                              THEN language \o <<Dot>> \o S_json
                              ELSE component \o <<Dot>> \o language \o <<Dot>> \o S_json
                      IN  Path(Parent(module_path) \o <<S_translations, filename>>)
        ELSE LET parts == Split1(component)
                 module == get_platform(parts[1], parts[2])
             IN  IF IsNone(module) THEN Raised
                 ELSE LET module_path == module.file
                          filename ==
                              IF Name(Parent(module_path)) = parts[1]
                              THEN parts[2] \o <<Dot>> \o language \o <<Dot>> \o S_json
                              ELSE parts[1] \o <<Dot>> \o language \o <<Dot>> \o S_json
                      IN  Path(Parent(module_path) \o <<S_translations, filename>>)

---------------------------------------------------------------------------
(* load_translations_files, build_resources                                *)

\* The orders in which a Python set with the elements of S can iterate.
Orders(S) ==
    {s \in [1..Cardinality(S) -> S] : \A m, n \in DOMAIN s : m # n => s[m] # s[n]}

Range(s) == {s[n] : n \in DOMAIN s}

\* load_json(translation_file) returned and the assert on its type passed
LoadsOk(translation_file) ==
    load_json(translation_file).ok /\ IsDict(load_json(translation_file).value)

\* The entries of translation_files read before the loop ends: all of them,
\* or those in front of the first one on which load_json or the assert raises.
ReadOk(translation_files) ==
    {n \in DOMAIN translation_files :
        \A m \in 1..n : LoadsOk(translation_files[m][2])}

\* a loader that takes a file it cannot load for an empty document
load_translations_files_default(translation_files) ==
    [loaded |->
        [component \in {translation_files[n][1] : n \in DOMAIN translation_files} |->
            IF LoadsOk(Get(translation_files, component))
            THEN load_json(Get(translation_files, component)).value.dict
            ELSE <<>>]]

\* a loader that leaves out the files it cannot load
load_translations_files_skipping(translation_files) ==
    [loaded |->
        [component \in {translation_files[n][1] :
                            n \in {n2 \in DOMAIN translation_files :
                                      LoadsOk(translation_files[n2][2])}} |->
            load_json(Get(translation_files, component)).value.dict]]

\* translation_files is the dict component -> path, in insertion order
load_translations_files(translation_files) ==
    IF \E n \in DOMAIN translation_files : ~LoadsOk(translation_files[n][2])
    THEN Raised
    ELSE [loaded |->
            [component \in {translation_files[n][1] : n \in DOMAIN translation_files} |->
                load_json(Get(translation_files, component)).value.dict]]

\* The domain a component or platform identifier belongs to.
DomainOf(component) ==
    IF ~HasDot(component) THEN component ELSE Split1(component)[1]

\* resources[domain].update(translation_cache[component]), after the domain's
\* bundle was created when absent
AddToDomain(resources, domain, tree) ==
    LET r == IF ~Has(resources, domain) THEN Put(resources, domain, PyDict(<<>>))
             ELSE resources
    IN  Put(r, domain, PyDict(Update(Get(r, domain).dict, tree)))

\* the loop of build_resources over components, a sequence
RECURSIVE build_loop(_, _)
build_loop(translation_cache, comps) ==
    IF comps = <<>> THEN <<>>
    ELSE LET n == Len(comps)
             component == comps[n]
         IN  AddToDomain(build_loop(translation_cache, SubSeq(comps, 1, n - 1)),
                         DomainOf(component), translation_cache[component])

\* a build over every cached component, required or not
build_resources_all_cached(translation_cache, comps) ==
    [resources |->
        build_loop(translation_cache,
                   CHOOSE order \in Orders(DOMAIN translation_cache) : TRUE)]

\* translation_cache[component] raises KeyError for a component not cached
build_resources(translation_cache, comps) ==
    IF \E n \in DOMAIN comps : comps[n] \notin DOMAIN translation_cache
    THEN Raised
    ELSE [resources |-> build_loop(translation_cache, comps)]

---------------------------------------------------------------------------
(* async_get_component_resources, async_get_translations                   *)
(*                                                                         *)
(* A call runs on the event loop without interruption up to its await of   *)
(* the load job, and again from the job's completion to its next await or  *)
(* its return.  The operators below compute the outcomes of such a run:    *)
(* the call's record and hass.data after it.                               *)

ApiNames == {"async_get_translations", "async_get_component_resources"}

\* A call's record.  passes is its history: one entry per invocation of
\* async_get_component_resources it made.
IdleCall ==
    [pc |-> "idle", api |-> "", language |-> <<>>, pass |-> 0, lang |-> <<>>,
     components |-> {}, missing_files |-> <<>>, job |-> "none", loaded |-> <<>>,
     resources |-> <<>>, result |-> <<>>, concurrent |-> FALSE, passes |-> <<>>]

Outcome(k, d) == [call |-> k, data |-> d]

SetStatus(passes, status) == [passes EXCEPT ![Len(passes)].status = status]

\* the locals of the coroutine are gone once it has returned or raised
DropLocals(k) ==
    [k EXCEPT !.components = {}, !.missing_files = <<>>, !.job = "none",
              !.loaded = <<>>, !.resources = <<>>]

\* an exception swallowed into an empty result
RaiseSwallowed(k, d, status) ==
    Outcome([DropLocals(k) EXCEPT !.pc = "done", !.result = <<>>], d)

\* an exception leaves async_get_component_resources and its caller; status
\* records where it was raised: "unresolved" (component_translation_file),
\* "load_failed" (the load job), "key_error" (build_resources)
Raise(k, d, status) ==
    Outcome([DropLocals(k) EXCEPT !.pc = "failed",
                                  !.passes = SetStatus(@, status)], d)

Done(k, d, result) ==
    Outcome([DropLocals(k) EXCEPT !.pc = "done", !.result = result], d)

\* a store created anew, with an empty partition per language, at every call
EnsureCacheAnew(d, language) ==
    TRANSLATION_STRING_CACHE :> [l \in Languages |-> <<>>]

\* the partition of the language created anew, empty, at every call
EnsurePartitionAnew(d, language) ==
    IF TRANSLATION_STRING_CACHE \notin DOMAIN d
    THEN d @@ (TRANSLATION_STRING_CACHE :> (language :> <<>>))
    ELSE [d EXCEPT ![TRANSLATION_STRING_CACHE] = (language :> <<>>) @@ @]

\* lines 117-120: the store and the language's partition are created when absent
EnsureCache(d, language) ==
    LET d1 == IF TRANSLATION_STRING_CACHE \notin DOMAIN d
              THEN d @@ (TRANSLATION_STRING_CACHE :> <<>>)
              ELSE d
    IN  IF language \notin DOMAIN d1[TRANSLATION_STRING_CACHE]
        THEN [d1 EXCEPT ![TRANSLATION_STRING_CACHE] = @ @@ (language :> <<>>)]
        ELSE d1

\* an update that stops after the first entry of the batch
CacheUpdateFirstOnly(translation_cache, loaded_translations) ==
    LET first == CHOOSE i \in DOMAIN loaded_translations : TRUE
    IN  (first :> loaded_translations[first]) @@ translation_cache

\* the cache replaced by the batch instead of updated with it
CacheUpdateReplace(translation_cache, loaded_translations) == loaded_translations

\* translation_cache.update(loaded_translations)
CacheUpdate(translation_cache, loaded_translations) ==
    loaded_translations @@ translation_cache

\* a merge in which the fallback language wins
MergeFallbackBaseWins(base_resources, resources) == Update(resources, base_resources)

\* {**base_resources, **resources}
MergeFallback(base_resources, resources) == Update(base_resources, resources)

\* every required component taken as missing, cached or not
MissingComponentsAll(comps, translation_cache) == comps

\* components - set(translation_cache)
MissingComponents(comps, translation_cache) == comps \ DOMAIN translation_cache

RECURSIVE BeginResources(_, _, _)
RECURSIVE FinishResources(_, _, _)
RECURSIVE Return(_, _, _)

\* async_get_component_resources(hass, language) up to the await
BeginResources(k, d, language) ==
    LET d1 == EnsureCache(d, language)
        translation_cache == d1[TRANSLATION_STRING_CACHE][language]
        comps == components \cup Range(FLOWS)
        missing_components == MissingComponents(comps, translation_cache)
        k1 == [k EXCEPT !.lang = language, !.pass = @ + 1, !.components = comps,
                        !.passes = Append(@, [lang |-> language,
                                              components |-> comps,
                                              missing |-> missing_components,
                                              status |-> "begun",
                                              result |-> <<>>])]
    IN  IF \E c \in missing_components :
               IsRaised(component_translation_file(c, language))
        THEN {Raise(k1, d1, "unresolved")}
        ELSE IF missing_components # {}
        THEN {Outcome([k1 EXCEPT
                          !.pc = "await", !.job = "pending",
                          !.passes = SetStatus(@, "await"),
                          !.missing_files =
                              [n \in DOMAIN order |->
                                  <<order[n],
                                    component_translation_file(order[n], language).path>>]],
                      d1) : order \in Orders(missing_components)}
        ELSE FinishResources(k1, d1, <<>>)

\* async_get_component_resources from the await to its return;
\* loaded_translations is empty when no job was dispatched
FinishResources(k, d, loaded_translations) ==
    LET d1 == IF loaded_translations = <<>> THEN d
              ELSE [d EXCEPT ![TRANSLATION_STRING_CACHE][k.lang] =
                                 CacheUpdate(@, loaded_translations)]
        translation_cache == d1[TRANSLATION_STRING_CACHE][k.lang]
        k1 == [k EXCEPT !.passes = SetStatus(@, IF loaded_translations = <<>>
                                                THEN "cached" ELSE "loaded")]
    IN  UNION {LET built == build_resources(translation_cache, order)
               IN  IF IsRaised(built) THEN {Raise(k1, d1, "key_error")}
                   ELSE Return(k1, d1,
                               flatten(<< <<S_component, PyDict(built.resources)>> >>))
               : order \in Orders(k.components)}

\* an async_get_translations that computes the "en" resources for every language
ReturnAlwaysFallsBack(k, d, resources) ==
    LET k1 == [k EXCEPT !.passes[Len(k.passes)].result = resources]
    IN  IF k.api = "async_get_component_resources" THEN {Done(k1, d, resources)}
        ELSE IF k.pass = 1
        THEN BeginResources([k1 EXCEPT !.resources = resources], d, En)
        ELSE {Done(k1, d, MergeFallback(resources, k.resources))}

\* async_get_translations from the return of an async_get_component_resources
\* call on; a direct call of async_get_component_resources just returns
Return(k, d, resources) ==
    LET k1 == [k EXCEPT !.passes[Len(k.passes)].result = resources]
    IN  IF k.api = "async_get_component_resources" THEN {Done(k1, d, resources)}
        ELSE IF k.pass = 1
        THEN IF k.language # En
             THEN BeginResources([k1 EXCEPT !.resources = resources], d, En)
             ELSE {Done(k1, d, resources)}
        ELSE {Done(k1, d, MergeFallback(resources, k.resources))}

---------------------------------------------------------------------------
(* The state machine                                                       *)

\* components hass.config.components can hold besides those of FLOWS
ConfigUniverse == {LightHue, Unknown}

\* a second deployment: the single-file component group can be set up
GroupUniverse == {Group}

NoLoads ==
    [p \in Languages \X (ConfigUniverse \cup GroupUniverse \cup Range(FLOWS)) |-> 0]

Init ==
    /\ components \in SUBSET ConfigUniverse
    /\ data = <<>>
    /\ calls = [c \in 1..MaxCalls |-> IdleCall]
    /\ started = 0
    /\ changes = 0
    /\ fileLoads = NoLoads
    /\ cacheInserts = NoLoads
    /\ arg = <<>>
    /\ ret = <<>>
    /\ hpc = "idle"

Harness == <<arg, ret, hpc>>

\* A caller calls async_get_translations or async_get_component_resources:
\* the call runs up to its first await, or to its end when nothing is missing.
Call(c, api, language) ==
    /\ started < MaxCalls
    /\ c = started + 1
    /\ calls[c].pc = "idle"
    /\ \E o \in BeginResources(
                   [IdleCall EXCEPT !.api = api, !.language = language,
                                    !.concurrent =
                                        \E c2 \in DOMAIN calls : calls[c2].pc = "await"],
                   data, language) :
          /\ calls' = [calls EXCEPT ![c] = o.call]
          /\ data' = o.data
    /\ started' = started + 1
    /\ UNCHANGED <<components, changes, fileLoads, cacheInserts, Harness>>

\* The executor runs the job hass.async_add_job dispatched.
RunJob(c) ==
    /\ calls[c].pc = "await"
    /\ calls[c].job = "pending"
    /\ LET translation_files == calls[c].missing_files
           r == load_translations_files(translation_files)
       IN  /\ calls' = [calls EXCEPT ![c] =
                          IF IsRaised(r) THEN [@ EXCEPT !.job = "raised"]
                          ELSE [@ EXCEPT !.job = "loaded", !.loaded = r.loaded]]
           /\ fileLoads' =
                [p \in DOMAIN fileLoads |->
                    IF \E n \in ReadOk(translation_files) :
                           p = <<calls[c].lang, translation_files[n][1]>>
                    THEN fileLoads[p] + 1 ELSE fileLoads[p]]
    /\ UNCHANGED <<components, data, started, changes, cacheInserts, Harness>>

\* The event loop resumes the call awaiting a finished job.
Resume(c) ==
    /\ calls[c].pc = "await"
    /\ calls[c].job \in {"loaded", "raised"}
    /\ \E o \in (IF calls[c].job = "raised"
                 THEN {Raise(calls[c], data, "load_failed")}
                 ELSE FinishResources(calls[c], data, calls[c].loaded)) :
          /\ calls' = [calls EXCEPT ![c] = o.call]
          /\ data' = o.data
    /\ cacheInserts' =
          [p \in DOMAIN cacheInserts |->
              IF calls[c].job = "loaded" /\ p[1] = calls[c].lang
                                        /\ p[2] \in DOMAIN calls[c].loaded
              THEN cacheInserts[p] + 1 ELSE cacheInserts[p]]
    /\ UNCHANGED <<components, started, changes, fileLoads, Harness>>

\* Setup adds a component to hass.config.components.
AddComponent(i) ==
    /\ changes < MaxChanges
    /\ i \notin components
    /\ components' = components \cup {i}
    /\ changes' = changes + 1
    /\ UNCHANGED <<data, calls, started, fileLoads, cacheInserts, Harness>>

\* A component is removed from hass.config.components.
RemoveComponent(i) ==
    /\ changes < MaxChanges
    /\ i \in components
    /\ components' = components \ {i}
    /\ changes' = changes + 1
    /\ UNCHANGED <<data, calls, started, fileLoads, cacheInserts, Harness>>

Next ==
    \/ \E c \in 1..MaxCalls, api \in ApiNames, language \in Languages :
          Call(c, api, language)
    \/ \E c \in 1..MaxCalls : RunJob(c)
    \/ \E c \in 1..MaxCalls : Resume(c)
    \/ \E i \in ConfigUniverse : AddComponent(i)
    \/ \E i \in ConfigUniverse : RemoveComponent(i)

Spec == Init /\ [][Next]_vars

\* The deployment in which setup adds and removes group: "light" and "group"
\* are of different domains, and both have an "en" file.
InitGroup ==
    /\ components \in SUBSET GroupUniverse
    /\ data = <<>>
    /\ calls = [c \in 1..MaxCalls |-> IdleCall]
    /\ started = 0
    /\ changes = 0
    /\ fileLoads = NoLoads
    /\ cacheInserts = NoLoads
    /\ arg = <<>>
    /\ ret = <<>>
    /\ hpc = "idle"

NextGroup ==
    \/ \E c \in 1..MaxCalls, api \in ApiNames, language \in Languages :
          Call(c, api, language)
    \/ \E c \in 1..MaxCalls : RunJob(c)
    \/ \E c \in 1..MaxCalls : Resume(c)
    \/ \E i \in GroupUniverse : AddComponent(i)
    \/ \E i \in GroupUniverse : RemoveComponent(i)

SpecGroup == InitGroup /\ [][NextGroup]_vars

---------------------------------------------------------------------------
(* Views of the state used by the properties                               *)

CallIds == 1..MaxCalls

\* the entries of cache[language]: hass.data[TRANSLATION_STRING_CACHE][language],
\* empty while the partition does not exist
CacheOf(language) ==
    IF /\ TRANSLATION_STRING_CACHE \in DOMAIN data
       /\ language \in DOMAIN data[TRANSLATION_STRING_CACHE]
    THEN data[TRANSLATION_STRING_CACHE][language]
    ELSE <<>>

\* the invocation of async_get_component_resources recorded in p returned a map
Returned(p) == p.status \in {"cached", "loaded"}

\* a completed async_get_translations call for a language other than "en"
FellBack(c) ==
    /\ calls[c].pc = "done"
    /\ calls[c].api = "async_get_translations"
    /\ calls[c].language # En

---------------------------------------------------------------------------
(* C1: for every language L other than "en", the map async_get_translations *)
(* returns is the key union of the single-language result for L and the    *)
(* single-language result for "en": a key of both carries the value of L,  *)
(* a key of "en" alone carries the value of "en", and there is no other    *)
(* key.                                                                    *)

FallbackPrecedence ==
    \A c \in CallIds :
        FellBack(c) =>
            LET requested == calls[c].passes[1].result
                base == calls[c].passes[2].result
                result == calls[c].result
            IN  /\ Len(calls[c].passes) = 2
                /\ calls[c].passes[1].lang = calls[c].language
                /\ calls[c].passes[2].lang = En
                /\ Keys(result) = Keys(requested) \cup Keys(base)
                /\ \A key \in Keys(requested) : Get(result, key) = Get(requested, key)
                /\ \A key \in Keys(base) \ Keys(requested) :
                       Get(result, key) = Get(base, key)

\* a fallback whose two results share a key with different values, and each
\* have a key the other lacks
FallbackPrecedenceWitness ==
    \E c \in CallIds :
        /\ FellBack(c)
        /\ LET requested == calls[c].passes[1].result
               base == calls[c].passes[2].result
           IN  /\ \E key \in Keys(requested) \cap Keys(base) :
                      Get(requested, key) # Get(base, key)
               /\ Keys(base) \ Keys(requested) # {}
               /\ Keys(requested) \ Keys(base) # {}

---------------------------------------------------------------------------
(* C2: in any sequence of non-overlapping calls each (language, identifier) *)
(* pair is loaded at most once: a call resolves paths and loads files for  *)
(* exactly the required identifiers that are not keys of cache[language],  *)
(* and a second call over the same required set dispatches no load.        *)

\* no call was started while another one was suspended on its load job
NonOverlapping == \A c \in CallIds : ~calls[c].concurrent

\* a suspended call has dispatched exactly the required identifiers that are
\* not cached
LoadsExactlyMissing ==
    \A c \in CallIds :
        calls[c].pc = "await" =>
            Keys(calls[c].missing_files) =
                calls[c].components \ DOMAIN CacheOf(calls[c].lang)

\* after an invocation that returned, a later call's invocation for the same
\* language and the same required set finds nothing missing
SecondCallLoadsNothing ==
    \A c1, c2 \in CallIds :
        c1 < c2 =>
            \A n1 \in DOMAIN calls[c1].passes, n2 \in DOMAIN calls[c2].passes :
                LET p1 == calls[c1].passes[n1]
                    p2 == calls[c2].passes[n2]
                IN  (Returned(p1) /\ p1.lang = p2.lang /\ p1.components = p2.components)
                        => p2.missing = {}

\* C2 as stated: no file is read without error more than once
LoadedFromFileAtMostOnce ==
    NonOverlapping =>
        /\ \A p \in DOMAIN fileLoads : fileLoads[p] <= 1
        /\ LoadsExactlyMissing
        /\ SecondCallLoadsNothing

\* C2 as amended: no pair is loaded by more than one batch that succeeds, that
\* is, inserted into the cache more than once
InsertedAtMostOnce ==
    NonOverlapping =>
        /\ \A p \in DOMAIN cacheInserts : cacheInserts[p] <= 1
        /\ LoadsExactlyMissing
        /\ SecondCallLoadsNothing

\* two calls one after the other over the same required set of two
\* identifiers: the first loaded both, the second found both cached
InsertedAtMostOnceWitness ==
    /\ NonOverlapping
    /\ \E c1, c2 \in CallIds :
          /\ c1 < c2
          /\ calls[c1].pc = "done" /\ calls[c2].pc = "done"
          /\ LET p1 == calls[c1].passes[1]
                 p2 == calls[c2].passes[1]
             IN  /\ p1.lang = p2.lang /\ p1.components = p2.components
                 /\ p1.status = "loaded" /\ Cardinality(p1.missing) = 2
                 /\ p2.status = "cached"
                 /\ \A i \in p1.missing :
                        /\ cacheInserts[<<p1.lang, i>>] = 1
                        /\ fileLoads[<<p1.lang, i>>] = 1

---------------------------------------------------------------------------
(* C3: when two async_get_component_resources invocations for the same     *)
(* language overlap, no identifier is loaded by both: an identifier whose  *)
(* load is in flight is not loaded a second time.                          *)

NoDuplicateLoad ==
    \A c1, c2 \in CallIds :
        (/\ c1 # c2
         /\ calls[c1].pc = "await" /\ calls[c2].pc = "await"
         /\ calls[c1].lang = calls[c2].lang
         /\ calls[c1].job = "loaded" /\ calls[c2].job = "loaded")
            => DOMAIN calls[c1].loaded \cap DOMAIN calls[c2].loaded = {}

---------------------------------------------------------------------------
(* C4: insertion of a batch into cache[language] is all-or-nothing under   *)
(* every interleaving of calls: no state holds part of a batch, and once a *)
(* batch is inserted every later reader of the cache sees all its entries. *)

\* the tree the file of component holds for language
FileTree(language, component) ==
    load_json(component_translation_file(component, language).path).value.dict

\* every batch that was inserted is in the cache with all its trees
InsertedBatchesVisible ==
    \A c \in CallIds :
        \A n \in DOMAIN calls[c].passes :
            LET p == calls[c].passes[n]
            IN  p.status = "loaded" =>
                    \A i \in p.missing :
                        /\ i \in DOMAIN CacheOf(p.lang)
                        /\ CacheOf(p.lang)[i] = FileTree(p.lang, i)

\* a step that changes the entries of cache[language] is the resumption of
\* one call and puts the whole of that call's batch into the cache
InsertsWholeBatch ==
    \A language \in Languages :
        CacheOf(language)' # CacheOf(language) =>
            \E c \in CallIds :
                /\ calls[c].pc = "await"
                /\ calls[c].job = "loaded"
                /\ calls[c].lang = language
                /\ calls'[c].passes[calls[c].pass].status = "loaded"
                /\ DOMAIN calls[c].loaded = Keys(calls[c].missing_files)
                /\ DOMAIN CacheOf(language)' =
                       DOMAIN CacheOf(language) \cup DOMAIN calls[c].loaded
                /\ \A i \in DOMAIN calls[c].loaded :
                       CacheOf(language)'[i] = calls[c].loaded[i]
                /\ \A i \in DOMAIN CacheOf(language) \ DOMAIN calls[c].loaded :
                       CacheOf(language)'[i] = CacheOf(language)[i]

\* C4: a batch is inserted whole in one step, and an inserted batch stays visible
\* with all its entries
AllOrNothingInsertion == []InsertedBatchesVisible /\ [][InsertsWholeBatch]_vars

\* a batch of two identifiers has been inserted while another call for the
\* same language is suspended on a batch of its own
AllOrNothingInsertionWitness ==
    \E c1, c2 \in CallIds :
        /\ c1 # c2
        /\ calls[c2].pc = "await"
        /\ \E n \in DOMAIN calls[c1].passes :
              /\ calls[c1].passes[n].status = "loaded"
              /\ calls[c1].passes[n].lang = calls[c2].lang
              /\ Cardinality(calls[c1].passes[n].missing) = 2
              /\ calls[c1].passes[n].missing \subseteq DOMAIN CacheOf(calls[c2].lang)

---------------------------------------------------------------------------
(* C5: every identifier that is a key of cache[language] has been loaded   *)
(* without error for that language and maps to the tree that load          *)
(* produced; a failed load adds no entry and neither changes nor removes   *)
(* the entry of any other identifier.                                      *)

CacheHoldsLoadedTrees ==
    \A language \in Languages :
        \A i \in DOMAIN CacheOf(language) :
            /\ fileLoads[<<language, i>>] >= 1
            /\ ~IsRaised(component_translation_file(i, language))
            /\ LoadsOk(component_translation_file(i, language).path)
            /\ CacheOf(language)[i] = FileTree(language, i)

\* the step in which a load job fails, and the step in which its failure
\* reaches the call that awaits it
LoadFails(c) ==
    /\ calls[c].pc = "await"
    /\ \/ calls[c].job = "pending" /\ calls'[c].job = "raised"
       \/ calls[c].job = "raised" /\ calls'[c].pc = "failed"

FailedLoadKeepsCache ==
    \A c \in CallIds :
        LoadFails(c) => \A language \in Languages : CacheOf(language)' = CacheOf(language)

\* C5: the cache holds only trees that were loaded without error, and a failed
\* load changes no entry
OnlyLoadedTreesCached == []CacheHoldsLoadedTrees /\ [][FailedLoadKeepsCache]_vars

\* a call has failed on its load job while the cache of its language held
\* the tree of another identifier
OnlyLoadedTreesCachedWitness ==
    \E c \in CallIds :
        /\ calls[c].pc = "failed"
        /\ LET p == calls[c].passes[Len(calls[c].passes)]
           IN  /\ p.status = "load_failed"
               /\ DOMAIN CacheOf(p.lang) # {}
               /\ p.missing \cap DOMAIN CacheOf(p.lang) = {}

---------------------------------------------------------------------------
(* C6: if path resolution or file loading fails for an identifier of the   *)
(* missing set, the whole async_get_component_resources call and the       *)
(* async_get_translations call that issued it fail and return no map; the  *)
(* failure is never turned into an empty or partial result, and the        *)
(* entries of cache[language] are after the failed call what they were     *)
(* before it, also for the identifiers of the batch that loaded.           *)

\* path resolution or loading fails for component in language
CannotLoad(language, component) ==
    \/ IsRaised(component_translation_file(component, language))
    \/ ~LoadsOk(component_translation_file(component, language).path)

FailureFailsTheCall ==
    \A c \in CallIds :
        /\ \A n \in DOMAIN calls[c].passes :
              LET p == calls[c].passes[n]
              IN  (\E i \in p.missing : CannotLoad(p.lang, i)) =>
                      /\ p.status \in {"await", "unresolved", "load_failed"}
                      /\ n = Len(calls[c].passes)
                      /\ calls[c].pc \in {"await", "failed"}
                      /\ calls[c].result = <<>>
        /\ calls[c].pc = "failed" => calls[c].result = <<>>

\* the step in which a call fails leaves the entries of the cache of the
\* language it was resolving as they were
FailingStepKeepsCache ==
    \A c \in CallIds :
        (calls[c].pc # "failed" /\ calls'[c].pc = "failed") =>
            \A language \in Languages :
                language = calls'[c].passes[Len(calls'[c].passes)].lang =>
                    CacheOf(language)' = CacheOf(language)

\* C6: a failure for an identifier of the missing set fails the call, which
\* returns no map and leaves the cache entries of its language as they were
FailurePropagates == []FailureFailsTheCall /\ [][FailingStepKeepsCache]_vars

\* an async_get_translations call has failed on a batch of which one file was
\* read without error: that identifier is not in the cache
FailurePropagatesWitness ==
    \E c \in CallIds :
        /\ calls[c].pc = "failed"
        /\ calls[c].api = "async_get_translations"
        /\ LET p == calls[c].passes[Len(calls[c].passes)]
           IN  /\ p.status = "load_failed"
               /\ \E i \in p.missing :
                      /\ fileLoads[<<p.lang, i>>] >= 1
                      /\ i \notin DOMAIN CacheOf(p.lang)

---------------------------------------------------------------------------
(* C7: cache entries are never evicted: an identifier that is a key of     *)
(* cache[language] stays one in every later state, also when it is no      *)
(* longer required.                                                        *)

KeysStay ==
    \A language \in Languages :
        DOMAIN CacheOf(language) \subseteq DOMAIN CacheOf(language)'

\* C7: no step removes a key from cache[language]
NeverEvicted == [][KeysStay]_vars

\* an identifier is cached for a language, is no longer required, and a call
\* for that language has run to its end without it
NeverEvictedWitness ==
    \E language \in Languages :
        \E i \in DOMAIN CacheOf(language) :
            /\ i \notin components \cup Range(FLOWS)
            /\ \E c \in CallIds :
                  /\ calls[c].pc = "done"
                  /\ LET p == calls[c].passes[Len(calls[c].passes)]
                     IN  p.lang = language /\ i \notin p.components

---------------------------------------------------------------------------
(* C8: when a component and its platform define the same key the winner is *)
(* deterministic: the identifiers are processed in the order of the        *)
(* required set and the later one's value is returned, so with the         *)
(* required identifiers "light" and "light.hue" the result always carries  *)
(* the platform's value, and two calls over the same required set and      *)
(* files never return different values for the key.                        *)

\* the key of a result for a dotted key of a domain's bundle
ResultKey(domain, key) == S_component \o <<Dot>> \o domain \o <<Dot>> \o key

StateOn == ResultKey(S_light, S_state \o <<Dot>> \o S_on)

\* C8: with "light" and "light.hue" required the result carries the platform's
\* value for state.on, and two results over the same required set agree on it
PlatformAlwaysWins ==
    /\ \A c \in CallIds :
          \A n \in DOMAIN calls[c].passes :
              LET p == calls[c].passes[n]
              IN  (Returned(p) /\ p.lang = En /\ p.components = {Light, LightHue}) =>
                      Get(p.result, StateOn) =
                          Get(Get(FileTree(En, LightHue), S_state).dict, S_on)
    /\ \A c1, c2 \in CallIds :
          \A n1 \in DOMAIN calls[c1].passes, n2 \in DOMAIN calls[c2].passes :
              LET p1 == calls[c1].passes[n1]
                  p2 == calls[c2].passes[n2]
              IN  (/\ Returned(p1) /\ Returned(p2)
                   /\ p1.lang = p2.lang /\ p1.components = p2.components
                   /\ Has(p1.result, StateOn) /\ Has(p2.result, StateOn))
                      => Get(p1.result, StateOn) = Get(p2.result, StateOn)

---------------------------------------------------------------------------
(* C9: the bundle of a domain is the last-write-wins union of the flat     *)
(* maps of the domain's identifiers: every dotted key defined by at least  *)
(* one identifier of the domain is in the result, with the value one of    *)
(* the identifiers that define it gives it.                                *)

DomainBundleIsUnionOfFlatMaps ==
    \A c \in CallIds :
        \A n \in DOMAIN calls[c].passes :
            LET p == calls[c].passes[n]
            IN  Returned(p) =>
                    \A i \in p.components :
                        \A key \in Keys(flatten(FileTree(p.lang, i))) :
                            /\ Has(p.result, ResultKey(DomainOf(i), key))
                            /\ \E j \in p.components :
                                  /\ DomainOf(j) = DomainOf(i)
                                  /\ Has(flatten(FileTree(p.lang, j)), key)
                                  /\ Get(p.result, ResultKey(DomainOf(i), key)) =
                                         Get(flatten(FileTree(p.lang, j)), key)

---------------------------------------------------------------------------
(* flatten applied to trees: the specification under which the claims      *)
(* about flatten are checked.  arg is a tree of at most MaxNodes values    *)
(* (strings and nested mappings), ret the map flatten returns for it.      *)

TreeKeys == {<<"a">>, <<"b">>, <<"a", Dot, "b">>}
TreeLeaves == {PyStr("x"), PyStr("y")}

RECURSIVE TreesOfSize(_)
\* the values that take c of the node budget: a string, or a mapping of c - 1
ValuesOfSize(c) ==
    (IF c = 1 THEN TreeLeaves ELSE {}) \cup {PyDict(t) : t \in TreesOfSize(c - 1)}

\* the mappings with exactly n values in all, in every insertion order
TreesOfSize(n) ==
    IF n = 0 THEN {<<>>}
    ELSE UNION {UNION {UNION {{<< <<key, value>> >> \o rest :
                                  key \in TreeKeys \ Keys(rest)}
                              : value \in ValuesOfSize(c)}
                       : rest \in TreesOfSize(n - c)}
                : c \in 1..n}

Trees == UNION {TreesOfSize(n) : n \in 0..MaxNodes}

InitFlatten ==
    /\ components = {}
    /\ data = <<>>
    /\ calls = [c \in 1..MaxCalls |-> IdleCall]
    /\ started = 0
    /\ changes = 0
    /\ fileLoads = NoLoads
    /\ cacheInserts = NoLoads
    /\ arg \in Trees
    /\ ret = <<>>
    /\ hpc = "ready"

\* ret = flatten(arg)
ApplyFlatten ==
    /\ hpc = "ready"
    /\ ret' = flatten(arg)
    /\ hpc' = "done"
    /\ UNCHANGED <<components, data, calls, started, changes, fileLoads,
                   cacheInserts, arg>>

NextFlatten == ApplyFlatten

SpecFlatten == InitFlatten /\ [][NextFlatten]_vars

---------------------------------------------------------------------------
(* C10: for every tree T whose keys contain no ".", flatten(T) has exactly *)
(* one entry per leaf value of T, keyed by the dotted path of that leaf,   *)
(* and re-nesting flatten(T) by splitting its keys on "." reproduces T.    *)

\* no key of the tree, at any depth, contains "."
RECURSIVE DotFree(_)
DotFree(d) ==
    \A n \in DOMAIN d :
        /\ ~HasDot(d[n][1])
        /\ IsDict(d[n][2]) => DotFree(d[n][2].dict)

\* no value of the tree, at any depth, is an empty mapping
RECURSIVE NoEmptyMapping(_)
NoEmptyMapping(d) ==
    \A n \in DOMAIN d :
        IsDict(d[n][2]) => (d[n][2].dict # <<>> /\ NoEmptyMapping(d[n][2].dict))

\* the leaves of the tree: <<the keys on the way to the leaf, its value>>
RECURSIVE LeavesOf(_)
LeavesOf(d) ==
    UNION {IF IsDict(d[n][2])
           THEN {<< <<d[n][1]>> \o leaf[1], leaf[2] >> : leaf \in LeavesOf(d[n][2].dict)}
           ELSE {<< <<d[n][1]>>, d[n][2] >>}
           : n \in DOMAIN d}

\* '.'.join(keys)
RECURSIVE JoinDots(_)
JoinDots(keys) ==
    IF Len(keys) = 1 THEN keys[1]
    ELSE keys[1] \o <<Dot>> \o JoinDots(Tail(keys))

\* s.split('.')
RECURSIVE SplitDots(_)
SplitDots(s) ==
    IF HasDot(s)
    THEN <<SubSeq(s, 1, FirstDot(s) - 1)>> \o SplitDots(SubSeq(s, FirstDot(s) + 1, Len(s)))
    ELSE <<s>>

\* the tree with value put at the end of the path keys
RECURSIVE NestInsert(_, _, _)
NestInsert(d, keys, value) ==
    IF Len(keys) = 1 THEN Put(d, keys[1], value)
    ELSE LET inner == IF Has(d, keys[1]) /\ IsDict(Get(d, keys[1]))
                      THEN Get(d, keys[1]).dict ELSE <<>>
         IN  Put(d, keys[1], PyDict(NestInsert(inner, Tail(keys), value)))

\* the tree rebuilt from a flat map by splitting its keys on "."
RECURSIVE Nest(_)
Nest(flat) ==
    IF flat = <<>> THEN <<>>
    ELSE LET n == Len(flat)
         IN  NestInsert(Nest(SubSeq(flat, 1, n - 1)), SplitDots(flat[n][1]), flat[n][2])

\* equality of two dicts: the same keys with the same values, in any order
RECURSIVE SameDict(_, _)
SameDict(d, e) ==
    /\ Keys(d) = Keys(e)
    /\ \A key \in Keys(d) :
          LET v == Get(d, key)
              w == Get(e, key)
          IN  IF IsDict(v) THEN IsDict(w) /\ SameDict(v.dict, w.dict)
              ELSE ~IsDict(w) /\ v = w

\* one entry per leaf, keyed by the leaf's dotted path
OneEntryPerLeaf(tree, flat) ==
    /\ Len(flat) = Cardinality(LeavesOf(tree))
    /\ \A leaf \in LeavesOf(tree) :
          /\ Has(flat, JoinDots(leaf[1]))
          /\ Get(flat, JoinDots(leaf[1])) = leaf[2]

\* C10 as stated: for every tree without "." in its keys, trees with an empty
\* nested mapping included
FlattenRoundTrip ==
    (hpc = "done" /\ DotFree(arg)) =>
        /\ OneEntryPerLeaf(arg, ret)
        /\ SameDict(Nest(ret), arg)

\* C10 as amended: for every tree without "." in its keys and without an
\* empty nested mapping
FlattenRoundTripNoEmpty ==
    (hpc = "done" /\ DotFree(arg) /\ NoEmptyMapping(arg)) =>
        /\ OneEntryPerLeaf(arg, ret)
        /\ SameDict(Nest(ret), arg)

\* flatten was applied to a tree with a leaf at the top and a leaf two
\* mappings deep
FlattenRoundTripWitness ==
    /\ hpc = "done"
    /\ DotFree(arg) /\ NoEmptyMapping(arg)
    /\ Len(ret) >= 2
    /\ \E leaf \in LeavesOf(arg) : Len(leaf[1]) = 1
    /\ \E leaf \in LeavesOf(arg) : Len(leaf[1]) >= 2

---------------------------------------------------------------------------
(* component_translation_file applied to identifiers: the specification    *)
(* under which the claims about path resolution are checked.  arg is the   *)
(* pair of arguments, ret the results of two successive calls with them.   *)

PathNames == {S_light, S_hue, S_group, S_zz, S_demo}

\* components, platforms, and a platform whose name holds a separator
PathIdentifiers ==
    PathNames
        \cup {d \o <<Dot>> \o p : d \in PathNames, p \in PathNames}
        \cup {S_light \o <<Dot>> \o S_hue \o <<Dot>> \o S_zz}

InitPath ==
    /\ components = {}
    /\ data = <<>>
    /\ calls = [c \in 1..MaxCalls |-> IdleCall]
    /\ started = 0
    /\ changes = 0
    /\ fileLoads = NoLoads
    /\ cacheInserts = NoLoads
    /\ arg \in [component : PathIdentifiers, language : Languages]
    /\ ret = <<>>
    /\ hpc = "ready"

\* ret gets component_translation_file(hass, component, language)
ApplyPath ==
    /\ hpc \in {"ready", "done"}
    /\ ret' = Append(ret, component_translation_file(arg.component, arg.language))
    /\ hpc' = IF hpc = "ready" THEN "done" ELSE "again"
    /\ UNCHANGED <<components, data, calls, started, changes, fileLoads,
                   cacheInserts, arg>>

NextPath == ApplyPath

SpecPath == InitPath /\ [][NextPath]_vars

\* the results of the calls made so far
PathResults == {ret[n] : n \in DOMAIN ret}

\* path is the file filename in the ".translations" subdirectory of the
\* directory that contains the file module_file
InTranslationsOf(path, module_file, filename) ==
    /\ Len(path) = Len(module_file) + 1
    /\ SubSeq(path, 1, Len(module_file) - 1) = SubSeq(module_file, 1, Len(module_file) - 1)
    /\ path[Len(path) - 1] = S_translations
    /\ path[Len(path)] = filename

\* the name of the directory that contains the file module_file
DirName(module_file) == module_file[Len(module_file) - 1]

---------------------------------------------------------------------------
(* C11: a platform identifier is split at its first separator only into    *)
(* (domain, platform); the translation file is in the ".translations"      *)
(* subdirectory of the directory containing the platform module, named     *)
(* "<platform>.<language>.json" when that directory's name equals the      *)
(* domain and "<domain>.<language>.json" otherwise; the same (identifier,  *)
(* language) and registry always give the same path.                       *)

\* the text of a platform identifier before its first separator
PlatformDomain(identifier) == SplitDots(identifier)[1]

\* the text of a platform identifier after its first separator
PlatformName(identifier) == JoinDots(Tail(SplitDots(identifier)))

\* C11: the path of a platform the registry knows follows the layout rule, and
\* two calls with the same arguments give the same result
PlatformPathRule ==
    (hpc # "ready" /\ HasDot(arg.component)) =>
        LET domain == PlatformDomain(arg.component)
            platform == PlatformName(arg.component)
            module == get_platform(domain, platform)
        IN  /\ \A r \in PathResults :
                  ~IsNone(module) =>
                      /\ ~IsRaised(r)
                      /\ InTranslationsOf(
                             r.path, module.file,
                             IF DirName(module.file) = domain
                             THEN platform \o <<Dot>> \o arg.language \o <<Dot>> \o S_json
                             ELSE domain \o <<Dot>> \o arg.language \o <<Dot>> \o S_json)
            /\ \A r1, r2 \in PathResults : r1 = r2

\* the platform light.hue.zz, whose identifier holds two separators, was
\* resolved twice for Dutch to light/hue/.translations/light.nl.json
PlatformPathRuleWitness ==
    /\ hpc = "again"
    /\ arg.component = S_light \o <<Dot>> \o S_hue \o <<Dot>> \o S_zz
    /\ arg.language = Nl
    /\ Len(ret) = 2
    /\ ret[2] = Path(<<S_components, S_light, S_hue, S_translations,
                       S_light \o <<Dot>> \o Nl \o <<Dot>> \o S_json>>)

---------------------------------------------------------------------------
(* C12: for a component identifier (no separator) the translation file is  *)
(* in the ".translations" subdirectory of the directory containing the     *)
(* component module, named "<language>.json" when the module is a package  *)
(* entry unit (module name equals package name) and                        *)
(* "<component>.<language>.json" when it is a single-file component; an    *)
(* identifier unknown to the registry gives a failure and no path.         *)

\* C12: the path of a component the registry knows follows the naming rule, and
\* a component it does not know gives a failure
ComponentPathRule ==
    (hpc # "ready" /\ ~HasDot(arg.component)) =>
        LET module == get_component(arg.component)
        IN  \A r \in PathResults :
                IF IsNone(module)
                THEN IsRaised(r) /\ "path" \notin DOMAIN r
                ELSE /\ ~IsRaised(r)
                     /\ InTranslationsOf(
                            r.path, module.file,
                            IF module.name = module.package
                            THEN arg.language \o <<Dot>> \o S_json
                            ELSE arg.component \o <<Dot>> \o arg.language
                                     \o <<Dot>> \o S_json)

\* the single-file component group was resolved for Dutch to
\* components/.translations/group.nl.json
ComponentPathRuleWitness ==
    /\ hpc = "done"
    /\ arg.component = S_group
    /\ arg.language = Nl
    /\ ret = <<Path(<<S_components, S_translations,
                     S_group \o <<Dot>> \o Nl \o <<Dot>> \o S_json>>)>>

---------------------------------------------------------------------------
(* C13: async_get_translations("en") runs async_get_component_resources    *)
(* exactly once and returns its result unmodified; for any other language  *)
(* it runs it exactly twice, for the requested language first and for "en" *)
(* second, and the "en" resolution starts only after the resolution of the *)
(* requested language has completed successfully.                          *)

\* the calls of async_get_translations that were started
TranslationCalls ==
    {c \in CallIds : calls[c].pc # "idle" /\ calls[c].api = "async_get_translations"}

\* C13: one resolution for "en", returned as it is; two for another language,
\* the second for "en" and begun only once the first has returned
ResolutionsInOrder ==
    \A c \in TranslationCalls :
        LET passes == calls[c].passes
        IN  /\ Len(passes) >= 1
            /\ passes[1].lang = calls[c].language
            /\ IF calls[c].language = En
               THEN /\ Len(passes) = 1
                    /\ calls[c].pc = "done" => calls[c].result = passes[1].result
               ELSE /\ Len(passes) <= 2
                    /\ Len(passes) = 2 => (passes[2].lang = En /\ Returned(passes[1]))
                    /\ ~Returned(passes[1]) => Len(passes) = 1
                    /\ calls[c].pc = "done" => (Len(passes) = 2 /\ Returned(passes[2]))

\* a call for "en" has returned after one resolution that loaded a file, and a
\* call for "nl" has returned after two resolutions of which the first loaded
ResolutionsInOrderWitness ==
    \E c1, c2 \in TranslationCalls :
        /\ calls[c1].pc = "done" /\ calls[c1].language = En
        /\ calls[c1].passes[1].status = "loaded"
        /\ calls[c1].result # <<>>
        /\ calls[c2].pc = "done" /\ calls[c2].language = Nl
        /\ calls[c2].passes[1].status = "loaded"
        /\ Len(calls[c2].passes) = 2

---------------------------------------------------------------------------
(* C14: a successful async_get_translations call is complete and           *)
(* consistent for the required identifiers: the pass for the requested     *)
(* language and the pass for "en" are both computed over every required    *)
(* identifier, so no identifier contributes to one pass and is absent from *)
(* the other, also when hass.config.components changes while the call is   *)
(* suspended on a load.                                                    *)

\* C14: the two passes of a call that returned were computed over the same
\* identifiers
PassesOverSameIdentifiers ==
    \A c \in CallIds :
        FellBack(c) =>
            calls[c].passes[1].components = calls[c].passes[2].components

---------------------------------------------------------------------------
(* C15: the cache is transparent: with unchanged files and a required set  *)
(* in which no two identifiers of a domain define the same top-level key,  *)
(* async_get_component_resources returns the same map whether              *)
(* cache[language] was empty, held some of the required identifiers, or    *)
(* held all of them before the call; identifiers that were already cached  *)
(* contribute like freshly loaded ones, and identifiers cached but not     *)
(* required contribute nothing.                                            *)

\* no two identifiers of comps that share a domain define the same top-level key
NoSharedTopLevelKey(language, comps) ==
    \A i, j \in comps :
        (i # j /\ DomainOf(i) = DomainOf(j)) =>
            Keys(FileTree(language, i)) \cap Keys(FileTree(language, j)) = {}

\* the map built from the files alone, without a cache, processing the
\* identifiers in the given order
FromFiles(language, order) ==
    flatten(<< <<S_component,
                 PyDict(build_loop([i \in Range(order) |-> FileTree(language, i)],
                                   order))>> >>)

\* C15: whatever the cache held when the invocation began, the map it returned
\* is the map built from the files of the required identifiers
CacheTransparent ==
    \A c \in CallIds :
        \A n \in DOMAIN calls[c].passes :
            LET p == calls[c].passes[n]
            IN  (Returned(p) /\ NoSharedTopLevelKey(p.lang, p.components)) =>
                    \A order \in Orders(p.components) :
                        SameDict(p.result, FromFiles(p.lang, order))

\* a call over "light" and "group" that found "light" cached and loaded
\* "group" has returned, after a call over "light" that found nothing cached
CacheTransparentWitness ==
    \E c1, c2 \in CallIds :
        /\ c1 < c2
        /\ calls[c1].pc = "done" /\ calls[c2].pc = "done"
        /\ LET p1 == calls[c1].passes[1]
               p2 == calls[c2].passes[1]
           IN  /\ p1.lang = p2.lang
               /\ p1.components = {Light} /\ p1.missing = {Light}
               /\ p2.components = {Light, Group} /\ p2.missing = {Group}
               /\ Returned(p1) /\ Returned(p2)
               /\ Len(p2.result) > Len(p1.result)

---------------------------------------------------------------------------
(* C16: an async_get_component_resources(L) call adds entries only to      *)
(* cache[L] and leaves the partition of every other language unchanged;    *)
(* async_get_translations(L) changes only cache[L] and cache["en"]; so     *)
(* calls for different languages interleaved in any order leave each       *)
(* partition as it would be if the calls had run one after the other.      *)

\* hass.data[TRANSLATION_STRING_CACHE] has a partition for language
HasPartition(language) ==
    /\ TRANSLATION_STRING_CACHE \in DOMAIN data
    /\ language \in DOMAIN data[TRANSLATION_STRING_CACHE]

\* the languages whose partition a call may touch
LanguagesOf(k) ==
    IF k.api = "async_get_component_resources" THEN {k.language}
    ELSE {k.language, En}

\* a step that changes the partition of a language is a step of a call for
\* that language, and it only adds entries
OnlyOwnPartitionChanges ==
    \A language \in Languages :
        (\/ CacheOf(language)' # CacheOf(language)
         \/ HasPartition(language)' # HasPartition(language)) =>
            /\ \E c \in CallIds :
                  /\ calls'[c] # calls[c]
                  /\ language \in LanguagesOf(calls'[c])
                  /\ \E n \in DOMAIN calls'[c].passes :
                        calls'[c].passes[n].lang = language
            /\ \A i \in DOMAIN CacheOf(language) :
                  /\ i \in DOMAIN CacheOf(language)'
                  /\ CacheOf(language)'[i] = CacheOf(language)[i]

\* the invocations of async_get_component_resources for language that
\* inserted their batch
InsertedBatches(language) ==
    UNION {{calls[c].passes[n].missing :
               n \in {n2 \in DOMAIN calls[c].passes :
                         /\ calls[c].passes[n2].lang = language
                         /\ calls[c].passes[n2].status = "loaded"}}
           : c \in CallIds}

\* the partition of a language holds the batches of the invocations for that
\* language, whatever calls for other languages ran in between
PartitionHoldsOwnBatches ==
    \A language \in Languages :
        /\ DOMAIN CacheOf(language) = UNION InsertedBatches(language)
        /\ \A i \in DOMAIN CacheOf(language) :
              CacheOf(language)[i] = FileTree(language, i)

\* C16: a call changes the partitions of its own languages only, and each
\* partition holds what the invocations for its language inserted
PartitionsIndependent ==
    []PartitionHoldsOwnBatches /\ [][OnlyOwnPartitionChanges]_vars

\* an async_get_component_resources call for "en" ran from start to end while
\* one for "nl" was suspended, and both inserted their batch
PartitionsIndependentWitness ==
    \E c1, c2 \in CallIds :
        /\ c1 < c2
        /\ calls[c1].api = "async_get_component_resources"
        /\ calls[c2].api = "async_get_component_resources"
        /\ calls[c1].language = Nl /\ calls[c2].language = En
        /\ calls[c2].concurrent
        /\ calls[c1].pc = "done" /\ calls[c2].pc = "done"
        /\ calls[c1].passes[1].status = "loaded"
        /\ calls[c2].passes[1].status = "loaded"
        /\ DOMAIN CacheOf(Nl) # {} /\ DOMAIN CacheOf(En) # {}

---------------------------------------------------------------------------
(* C17: every key of an async_get_component_resources result has the form  *)
(* "component.<domain>.<path>", where <domain> is the text before the      *)
(* first separator of some identifier of the required set, and every value *)
(* is a leaf, never a mapping; flattening the wrapped nested resources     *)
(* once gives the same map as flattening each domain's tree, wrapping it   *)
(* under "component" and flattening again.                                 *)

\* {'component': resources}
Wrapped(resources) == << <<S_component, PyDict(resources)>> >>

\* resources with the tree of each domain flattened
EachFlattened(resources) ==
    [n \in DOMAIN resources |->
        <<resources[n][1], PyDict(flatten(resources[n][2].dict))>>]

\* s begins with prefix and goes on after it
StartsWith(s, prefix) ==
    /\ Len(s) > Len(prefix)
    /\ SubSeq(s, 1, Len(prefix)) = prefix

\* the nested resources the invocation recorded in p can have built
BuiltResources(p) ==
    {build_loop(CacheOf(p.lang), order) : order \in Orders(p.components)}

\* C17: keys are "component.<domain>.<path>" for a domain of the required set,
\* values are leaves, and one flattening equals flattening per domain and again
NamespacedFlatResult ==
    \A c \in CallIds :
        \A n \in DOMAIN calls[c].passes :
            LET p == calls[c].passes[n]
            IN  Returned(p) =>
                    /\ \A key \in Keys(p.result) :
                          /\ \E i \in p.components :
                                StartsWith(key, S_component \o <<Dot>>
                                                    \o SplitDots(i)[1] \o <<Dot>>)
                          /\ ~IsDict(Get(p.result, key))
                    /\ \E resources \in BuiltResources(p) :
                          p.result = flatten(Wrapped(resources))
                    /\ \A resources \in BuiltResources(p) :
                          SameDict(flatten(Wrapped(resources)),
                                   flatten(Wrapped(EachFlattened(resources))))

\* an invocation over "light" and "light.hue" has returned a map of two keys
\* of the domain "light", built from trees two levels deep
NamespacedFlatResultWitness ==
    \E c \in CallIds :
        \E n \in DOMAIN calls[c].passes :
            LET p == calls[c].passes[n]
            IN  /\ Returned(p)
                /\ p.components = {Light, LightHue}
                /\ Len(p.result) = 2
                /\ Has(p.result, StateOn)

---------------------------------------------------------------------------
(* C18: under every interleaving of calls and of changes to                *)
(* hass.config.components, when an async_get_component_resources call      *)
(* reaches build_resources every identifier of the required set it         *)
(* captured at its start is a key of cache[language], so the lookup in     *)
(* build_resources never misses; and when the call returns successfully    *)
(* cache[language] contains that whole captured set.                       *)

\* C18: a call about to resume with its loaded batch finds, with the batch, its
\* whole captured set cached; no invocation ended on a KeyError; an invocation
\* that returned left its whole captured set in the cache
CapturedSetCached ==
    \A c \in CallIds :
        /\ (calls[c].pc = "await" /\ calls[c].job = "loaded") =>
              calls[c].components \subseteq
                  DOMAIN CacheOf(calls[c].lang) \cup DOMAIN calls[c].loaded
        /\ \A n \in DOMAIN calls[c].passes :
              LET p == calls[c].passes[n]
              IN  /\ p.status # "key_error"
                  /\ Returned(p) => p.components \subseteq DOMAIN CacheOf(p.lang)

\* an async_get_translations call has returned whose first invocation was
\* suspended on a load while hass.config.components changed: its captured set
\* differs from the one of the second invocation, and is cached
CapturedSetCachedWitness ==
    \E c \in CallIds :
        /\ FellBack(c)
        /\ LET p1 == calls[c].passes[1]
               p2 == calls[c].passes[2]
           IN  /\ p1.status = "loaded" /\ p2.status = "loaded"
               /\ p1.components # p2.components
               /\ p1.components \subseteq DOMAIN CacheOf(p1.lang)
               /\ p2.components \subseteq DOMAIN CacheOf(p2.lang)

---------------------------------------------------------------------------
(* C19: no update is lost between overlapping calls for the same language: *)
(* the cache store and the partition of the language are created without a *)
(* suspend point and never replaced, so after two overlapping              *)
(* async_get_component_resources calls for a language have both completed  *)
(* successfully cache[language] contains the union of the identifiers of   *)
(* both batches, also when both calls were the first for that language.    *)

\* the batches of two calls for one language that both inserted are both in
\* the cache
BothBatchesCached ==
    \A c1, c2 \in CallIds :
        c1 # c2 =>
            \A n1 \in DOMAIN calls[c1].passes, n2 \in DOMAIN calls[c2].passes :
                LET p1 == calls[c1].passes[n1]
                    p2 == calls[c2].passes[n2]
                IN  (/\ p1.lang = p2.lang
                     /\ p1.status = "loaded" /\ p2.status = "loaded") =>
                        p1.missing \cup p2.missing \subseteq DOMAIN CacheOf(p1.lang)

\* the store and a partition, once created, stay, and a partition keeps the
\* entries it has
StoreAndPartitionsStay ==
    /\ TRANSLATION_STRING_CACHE \in DOMAIN data =>
          TRANSLATION_STRING_CACHE \in DOMAIN data'
    /\ \A language \in Languages :
          HasPartition(language) =>
              /\ HasPartition(language)'
              /\ \A i \in DOMAIN CacheOf(language) :
                    /\ i \in DOMAIN CacheOf(language)'
                    /\ CacheOf(language)'[i] = CacheOf(language)[i]

\* C19: nothing replaces the store or a partition, and the batches of two calls
\* for one language are both in the cache once both have inserted
NoLostUpdate == []BothBatchesCached /\ [][StoreAndPartitionsStay]_vars

\* two async_get_component_resources calls for one language, each begun when
\* the partition was empty and the second while the first was suspended, have
\* both returned after loading different batches
NoLostUpdateWitness ==
    \E c1, c2 \in CallIds :
        /\ c1 < c2
        /\ calls[c1].api = "async_get_component_resources"
        /\ calls[c2].api = "async_get_component_resources"
        /\ calls[c1].pc = "done" /\ calls[c2].pc = "done"
        /\ calls[c2].concurrent
        /\ LET p1 == calls[c1].passes[1]
               p2 == calls[c2].passes[1]
           IN  /\ p1.lang = p2.lang
               /\ p1.status = "loaded" /\ p2.status = "loaded"
               /\ p1.missing = p1.components /\ p2.missing = p2.components
               /\ p1.missing # p2.missing
               /\ DOMAIN CacheOf(p1.lang) = p1.missing \cup p2.missing

===========================================================================
